---- MODULE Spec2Model ----
(***************************************************************************)
(* Model of the missing.link content spider: the robots.txt interpreter,   *)
(* the URL helpers of the content extractor and the crawl orchestrator     *)
(* (queue, visited set, fetch loop, politeness delay, checkpoints, resume).*)
(*                                                                         *)
(* Strings are sequences of one-character strings.  A URL is a record      *)
(* [scheme, host, path, query, frag]: host is one atom, path a sequence of *)
(* characters starting with "/", query a sequence of parameter atoms.      *)
(***************************************************************************)
EXTENDS Integers, Sequences, FiniteSets, TLC

(***************************************************************************)
(* Bounds of the model                                                     *)
(***************************************************************************)
\* number of plain leaf pages linked from the home page of the modelled site
NumLeaves == 9
\* number of process runs (fresh crawls and resumes) in one behaviour
MaxRuns == 2

(***************************************************************************)
(* Program constants                                                       *)
(***************************************************************************)
\* a checkpoint is written when pagesRequested % 10 === 0
CheckpointEvery == 10
\* DEFAULT_CONFIG.maxPages / maxDepth / delayMs
DefaultMaxPages == 50
DefaultMaxDepth == 3
DefaultDelayMs == 1000

(***************************************************************************)
(* Strings                                                                 *)
(***************************************************************************)
Last(s) == s[Len(s)]
Front(s) == SubSeq(s, 1, Len(s) - 1)
Drop(s, k) == SubSeq(s, k + 1, Len(s))

\* String.prototype.toLowerCase on one character
LowerChar(c) ==
  CASE c = "A" -> "a"
    [] c = "P" -> "p"
    [] c = "M" -> "m"
    [] c = "L" -> "l"
    [] OTHER -> c

toLowerCase(s) == [i \in 1..Len(s) |-> LowerChar(s[i])]

\* String.prototype.includes
includes(s, p) == \E k \in 0..(Len(s) - Len(p)) : SubSeq(s, k + 1, k + Len(p)) = p

\* s.replace(/\*/g, "")
RECURSIVE StripStars(_)
StripStars(s) ==
  IF s = <<>> THEN <<>>
  ELSE IF Head(s) = "*" THEN StripStars(Tail(s))
  ELSE <<Head(s)>> \o StripStars(Tail(s))

(***************************************************************************)
(* URLs                                                                    *)
(***************************************************************************)
MkUrl(scheme, host, path, query, frag) ==
  [scheme |-> scheme, host |-> host, path |-> path, query |-> query, frag |-> frag]

\* the host parser of the URL constructor lowercases the host
HostLower(h) ==
  CASE h = "Example.COM" -> "example.com"
    [] OTHER -> h

\* hostname.replace(/^www\./, "")
StripWww(h) ==
  CASE h = "www.example.com" -> "example.com"
    [] OTHER -> h

\* new URL(x) throws on a string that is no absolute URL (the empty string included)
Parseable(u) == u.scheme \in {"https:", "mailto:"}

\* new URL(x) for a parseable x
ParseUrl(u) == [u EXCEPT !.host = HostLower(u.host)]

\* order of the query parameter names used by URLSearchParams.sort()
ParamRank(p) ==
  CASE p = "x" -> 1
    [] p = "y" -> 2
    [] OTHER -> 3

RECURSIVE InsertParam(_, _)
InsertParam(p, s) ==
  IF s = <<>> THEN <<p>>
  ELSE IF ParamRank(p) < ParamRank(Head(s)) THEN <<p>> \o s
  ELSE <<Head(s)>> \o InsertParam(p, Tail(s))

\* URLSearchParams.sort(): stable sort by name
RECURSIVE SortParams(_)
SortParams(q) ==
  IF q = <<>> THEN <<>>
  ELSE InsertParam(q[Len(q)], SortParams(Front(q)))

\* parsed.search as characters: "?" and the parameters joined by "&"
RECURSIVE JoinParams(_)
JoinParams(q) ==
  IF q = <<>> THEN <<>>
  ELSE IF Len(q) = 1 THEN <<q[1]>>
  ELSE <<q[1], "&">> \o JoinParams(Tail(q))

Search(u) == IF u.query = <<>> THEN <<>> ELSE <<"?">> \o JoinParams(u.query)

\* parsed.pathname + parsed.search
PathAndQuery(u) == u.path \o Search(u)

\* parsed.toString() as text: scheme atom, "//", host atom, path, query
Href(u) == <<u.scheme, "/", "/", u.host>> \o PathAndQuery(u)

\* ContentExtractor.normalizeUrl
normalizeUrl(u) ==
  IF ~Parseable(u) THEN u
  ELSE LET parsed == ParseUrl(u)
           pathname == IF parsed.path # <<"/">> /\ Last(parsed.path) = "/"
                       THEN Front(parsed.path)
                       ELSE parsed.path
       IN  [scheme |-> parsed.scheme,
            host |-> HostLower(parsed.host),
            path |-> IF pathname = <<>> THEN <<"/">> ELSE pathname,
            query |-> SortParams(parsed.query),
            frag |-> FALSE]

\* insertion-ordered Set<string>.add
SetAdd(s, x) == IF \E i \in 1..Len(s) : s[i] = x THEN s ELSE Append(s, x)

\* ContentExtractor.extractLinks: the hrefs of a page, already resolved against baseUrl
RECURSIVE InternalLinks(_, _, _)
InternalLinks(hrefs, baseUrl, acc) ==
  IF hrefs = <<>> THEN acc
  ELSE LET href == Head(hrefs)
           rest == Tail(hrefs)
       IN  IF href.scheme = "mailto:" \/ ~Parseable(href)
           THEN InternalLinks(rest, baseUrl, acc)
           ELSE LET resolved == ParseUrl([href EXCEPT !.frag = FALSE])
                IN  IF StripWww(resolved.host) = StripWww(ParseUrl(baseUrl).host)
                    THEN InternalLinks(rest, baseUrl, SetAdd(acc, normalizeUrl(resolved)))
                    ELSE InternalLinks(rest, baseUrl, acc)

RECURSIVE ExternalLinks(_, _, _)
ExternalLinks(hrefs, baseUrl, acc) ==
  IF hrefs = <<>> THEN acc
  ELSE LET href == Head(hrefs)
           rest == Tail(hrefs)
       IN  IF href.scheme = "mailto:" \/ ~Parseable(href)
           THEN ExternalLinks(rest, baseUrl, acc)
           ELSE LET resolved == ParseUrl([href EXCEPT !.frag = FALSE])
                IN  IF StripWww(resolved.host) = StripWww(ParseUrl(baseUrl).host)
                    THEN ExternalLinks(rest, baseUrl, acc)
                    ELSE ExternalLinks(rest, baseUrl, SetAdd(acc, resolved))

extractLinks(hrefs, baseUrl) ==
  [internal |-> InternalLinks(hrefs, baseUrl, <<>>),
   external |-> ExternalLinks(hrefs, baseUrl, <<>>)]

\* ContentExtractor.classifyPage, on the path (the modelled pages carry no title keyword)
classifyPage(u) ==
  IF u.path = <<"/">> \/ u.path = <<>> THEN "homepage"
  ELSE IF includes(toLowerCase(u.path), <<"/", "a">>) THEN "about"
  ELSE "other"

(***************************************************************************)
(* RobotsParser                                                            *)
(***************************************************************************)
NoDelay == -1

\* parseFloat of a Crawl-delay value; NoDelay stands for NaN
parseFloat(v) ==
  CASE v = <<"0">> -> 0
    [] v = <<"2">> -> 2
    [] v = <<"5">> -> 5
    [] OTHER -> NoDelay

\* RobotsParser.parse over the trimmed, comment-free lines [directive, value]
RECURSIVE ParseLines(_, _)
ParseLines(lines, groups) ==
  IF lines = <<>> THEN groups
  ELSE
    LET line == Head(lines)
        rest == Tail(lines)
        n == Len(groups)
    IN  IF line.value = <<>> THEN ParseLines(rest, groups)
        ELSE IF line.directive = "user-agent" THEN
          IF n = 0 \/ groups[n].rules # <<>> \/ groups[n].crawlDelay # NoDelay
          THEN ParseLines(rest, Append(groups,
                 [userAgents |-> <<toLowerCase(line.value)>>, rules |-> <<>>, crawlDelay |-> NoDelay]))
          ELSE ParseLines(rest, [groups EXCEPT ![n].userAgents = Append(@, toLowerCase(line.value))])
        ELSE IF line.directive = "disallow" THEN
          IF n > 0
          THEN ParseLines(rest, [groups EXCEPT ![n].rules = Append(@, [path |-> line.value, allow |-> FALSE])])
          ELSE ParseLines(rest, groups)
        ELSE IF line.directive = "allow" THEN
          IF n > 0
          THEN ParseLines(rest, [groups EXCEPT ![n].rules = Append(@, [path |-> line.value, allow |-> TRUE])])
          ELSE ParseLines(rest, groups)
        ELSE IF line.directive = "crawl-delay" THEN
          IF n > 0 /\ parseFloat(line.value) >= 0
          THEN ParseLines(rest, [groups EXCEPT ![n].crawlDelay = parseFloat(line.value)])
          ELSE ParseLines(rest, groups)
        ELSE ParseLines(rest, groups)

\* new RobotsParser(text)
RobotsParser(lines) == ParseLines(lines, <<>>)

HasAgent(group, a) == \E i \in 1..Len(group.userAgents) : group.userAgents[i] = a

\* first loop of findMatchingGroup ("exact match"): index of the returned group, 0 if none
ExactGroup(groups, ua) ==
  LET hits == {g \in 1..Len(groups) :
                 /\ ~(\E i \in 1..Len(groups[g].userAgents) :
                        includes(ua, groups[g].userAgents[i]) \/ groups[g].userAgents[i] = <<"*">>)
                 /\ HasAgent(groups[g], ua)}
  IN  IF hits = {} THEN 0 ELSE CHOOSE g \in hits : \A h \in hits : g <= h

\* second loop: the group of the longest declared token contained in ua (first wins on ties)
RECURSIVE PartialGroup_FirstWins(_, _, _, _, _)
PartialGroup_FirstWins(groups, ua, g, best, bestLen) ==
  IF g > Len(groups) THEN best
  ELSE LET agents == groups[g].userAgents
           cand == {i \in 1..Len(agents) :
                      agents[i] # <<"*">> /\ includes(ua, agents[i]) /\ best = 0}
       IN  IF cand = {} THEN PartialGroup_FirstWins(groups, ua, g + 1, best, bestLen)
           ELSE PartialGroup_FirstWins(groups, ua, g + 1, g, bestLen)

RECURSIVE PartialGroup(_, _, _, _, _)
PartialGroup(groups, ua, g, best, bestLen) ==
  IF g > Len(groups) THEN best
  ELSE LET agents == groups[g].userAgents
           cand == {i \in 1..Len(agents) :
                      agents[i] # <<"*">> /\ includes(ua, agents[i]) /\ Len(agents[i]) > bestLen}
           top == IF cand = {} THEN bestLen
                  ELSE Len(agents[CHOOSE i \in cand : \A j \in cand : Len(agents[i]) >= Len(agents[j])])
       IN  IF cand = {} THEN PartialGroup(groups, ua, g + 1, best, bestLen)
           ELSE PartialGroup(groups, ua, g + 1, g, top)

\* third loop: the first group declaring "*"
WildcardGroup(groups) ==
  LET hits == {g \in 1..Len(groups) : HasAgent(groups[g], <<"*">>)}
  IN  IF hits = {} THEN 0 ELSE CHOOSE g \in hits : \A h \in hits : g <= h

\* RobotsParser.findMatchingGroup: index of the group, 0 for null
findMatchingGroup(groups, userAgent) ==
  LET ua == toLowerCase(userAgent)
      exact == ExactGroup(groups, ua)
      partial == PartialGroup(groups, ua, 1, 0, 0)
  IN  IF exact # 0 THEN exact
      ELSE IF partial # 0 THEN partial
      ELSE WildcardGroup(groups)

\* the regular expression built by pathMatches: "^", ".*" for "*", literals, "$" when anchored
RECURSIVE RegexTest(_, _, _)
RegexTest(pattern, text, mustMatchEnd) ==
  IF pattern = <<>> THEN (mustMatchEnd => text = <<>>)
  ELSE IF Head(pattern) = "*"
       THEN \E k \in 0..Len(text) : RegexTest(Tail(pattern), Drop(text, k), mustMatchEnd)
       ELSE text # <<>> /\ Head(text) = Head(pattern)
            /\ RegexTest(Tail(pattern), Tail(text), mustMatchEnd)

\* RobotsParser.pathMatches
pathMatches_NoAnchor(pattern, path) ==
  IF pattern = <<>> THEN FALSE
  ELSE LET mustMatchEnd == Last(pattern) = "$"
           pat == IF mustMatchEnd THEN Front(pattern) ELSE pattern
       IN  RegexTest(pat, path, FALSE)

pathMatches(pattern, path) ==
  IF pattern = <<>> THEN FALSE
  ELSE LET mustMatchEnd == Last(pattern) = "$"
           pat == IF mustMatchEnd THEN Front(pattern) ELSE pattern
       IN  RegexTest(pat, path, mustMatchEnd)

\* the rule loop of isAllowed: index of bestMatch, 0 for null
RECURSIVE BestRule_LastWins(_, _, _, _, _)
BestRule_LastWins(rules, path, i, best, bestLen) ==
  IF i > Len(rules) THEN best
  ELSE IF pathMatches(rules[i].path, path)
       THEN LET matchLength == Len(StripStars(rules[i].path))
            IN  IF matchLength >= bestLen THEN BestRule_LastWins(rules, path, i + 1, i, matchLength)
                ELSE BestRule_LastWins(rules, path, i + 1, best, bestLen)
       ELSE BestRule_LastWins(rules, path, i + 1, best, bestLen)

RECURSIVE BestRule(_, _, _, _, _)
BestRule(rules, path, i, best, bestLen) ==
  IF i > Len(rules) THEN best
  ELSE IF pathMatches(rules[i].path, path)
       THEN LET matchLength == Len(StripStars(rules[i].path))
            IN  IF matchLength > bestLen THEN BestRule(rules, path, i + 1, i, matchLength)
                ELSE IF matchLength = bestLen /\ rules[i].allow
                     THEN BestRule(rules, path, i + 1, i, bestLen)
                     ELSE BestRule(rules, path, i + 1, best, bestLen)
       ELSE BestRule(rules, path, i + 1, best, bestLen)

\* RobotsParser.isAllowed
isAllowed(groups, url, userAgent) ==
  IF ~Parseable(url) THEN FALSE
  ELSE LET path == PathAndQuery(ParseUrl(url))
           g == findMatchingGroup(groups, userAgent)
       IN  IF g = 0 THEN TRUE
           ELSE IF groups[g].rules = <<>> THEN TRUE
           ELSE LET best == BestRule(groups[g].rules, path, 1, 0, -1)
                IN  IF best = 0 THEN TRUE ELSE groups[g].rules[best].allow

\* RobotsParser.getCrawlDelay, in seconds; NoDelay for null
getCrawlDelay(groups, userAgent) ==
  LET g == findMatchingGroup(groups, userAgent)
  IN  IF g = 0 THEN NoDelay ELSE groups[g].crawlDelay

\* RobotsParser.fetch: the policy built from the response to the robots.txt request
RobotsFetch_IgnoresStatus(response, text) == RobotsParser(text)
RobotsFetch(response, text) ==
  IF response = "ok" THEN RobotsParser(text) ELSE RobotsParser(<<>>)

(***************************************************************************)
(* URL filters                                                             *)
(***************************************************************************)
\* the regular expression built by matchGlob, tested case-insensitively:
\* "**" is ".*", "*" is "[^/]*", "?" is "[^/]", anchored at both ends
RECURSIVE GlobTest(_, _)
GlobTest(pattern, text) ==
  IF pattern = <<>> THEN text = <<>>
  ELSE IF Head(pattern) = "*" THEN
         IF Len(pattern) >= 2 /\ pattern[2] = "*"
         THEN \E k \in 0..Len(text) : GlobTest(Drop(pattern, 2), Drop(text, k))
         ELSE \E k \in 0..Len(text) :
                /\ \A j \in 1..k : text[j] # "/"
                /\ GlobTest(Tail(pattern), Drop(text, k))
  ELSE IF Head(pattern) = "?" THEN
         text # <<>> /\ Head(text) # "/" /\ GlobTest(Tail(pattern), Tail(text))
  ELSE text # <<>> /\ LowerChar(Head(text)) = LowerChar(Head(pattern))
       /\ GlobTest(Tail(pattern), Tail(text))

\* Crawler.matchGlob
matchGlob(pattern, text) == GlobTest(pattern, text)

MatchesAny(patterns, url) ==
  \E i \in 1..Len(patterns) :
    matchGlob(patterns[i], PathAndQuery(ParseUrl(url))) \/ matchGlob(patterns[i], Href(url))

\* Crawler.shouldCrawl
shouldCrawl_IncludeFirst(cfg, url) ==
  IF ~Parseable(url) THEN FALSE
  ELSE IF Len(cfg.includePatterns) > 0 /\ MatchesAny(cfg.includePatterns, url) THEN TRUE
  ELSE IF MatchesAny(cfg.excludePatterns, url) THEN FALSE
  ELSE Len(cfg.includePatterns) = 0

shouldCrawl(cfg, url) ==
  IF ~Parseable(url) THEN FALSE
  ELSE IF MatchesAny(cfg.excludePatterns, url) THEN FALSE
  ELSE IF Len(cfg.includePatterns) > 0 THEN MatchesAny(cfg.includePatterns, url)
  ELSE TRUE

(***************************************************************************)
(* The crawled site: pages, their links and what the server may answer     *)
(***************************************************************************)
Https(host, path) == MkUrl("https:", host, path, <<>>, FALSE)
Page(path) == Https("example.com", path)

RootPath == <<"/">>
AboutPath == <<"/", "a">>
BPath == <<"/", "b">>
CPath == <<"/", "c">>
DPath == <<"/", "d">>
PrivatePath == <<"/", "p">>
PdfPath == <<"/", "f", ".", "p", "d", "f">>
EPath == <<"/", "e">>
GPath == <<"/", "g">>

Digits == <<"0", "1", "2", "3", "4", "5", "6", "7", "8", "9">>
LeafPath(i) ==
  IF i < 10 THEN <<"/", Digits[i + 1]>>
  ELSE <<"/", Digits[(i \div 10) + 1], Digits[(i % 10) + 1]>>

\* the hrefs of each page, in document order, resolved against the page's URL
Hrefs(path) ==
  CASE path = RootPath ->
         <<Page(AboutPath),
           Page(AboutPath \o <<"/">>),
           MkUrl("https:", "Example.COM", AboutPath, <<>>, TRUE),
           Page(PrivatePath),
           MkUrl("mailto:", "", <<>>, <<>>, FALSE),
           MkUrl("invalid", "", <<>>, <<>>, FALSE),
           Https("other.com", DPath)>>
         \o [i \in 1..NumLeaves |-> Page(LeafPath(i))]
         \o <<MkUrl("https:", "example.com", LeafPath(1), <<"y", "x">>, FALSE),
              MkUrl("https:", "example.com", LeafPath(1), <<"x", "y">>, FALSE),
              Page(PdfPath)>>
    [] path = AboutPath ->
         <<Page(BPath), Page(AboutPath), Page(RootPath),
           Page(AboutPath \o <<"/", "/", "/", "/">>),
           Https("www.example.com", DPath)>>
    [] path = BPath -> <<Page(CPath), Page(PrivatePath), Page(EPath), Page(GPath)>>
    [] path = CPath -> <<Page(DPath), Page(GPath)>>
    [] OTHER -> <<>>

\* the page a request path is served from: trailing slashes are ignored by the server
RECURSIVE ServedPath(_)
ServedPath(path) ==
  IF Len(path) > 1 /\ Last(path) = "/" THEN ServedPath(Front(path)) ELSE path

\* error messages a fetch may be rejected with
Http404 == <<"H", "T", "T", "P", " ", "4", "0", "4">>
Http403 == <<"H", "T", "T", "P", " ", "4", "0", "3">>
Http500 == <<"H", "T", "T", "P", " ", "5", "0", "0">>
RequestTimeout == <<"R", "e", "q", " ", "t", "i", "m", "e", "o", "u", "t">>
SocketHangUp == <<"s", "o", "c", "k", "e", "t">>
EmptyMessage == <<>>
OxylabsNoContent == <<"N", "o", " ", "c", "o", "n", "t", "e", "n", "t">>

Ok(ms) == [kind |-> "ok", error |-> <<>>, location |-> Page(RootPath), ms |-> ms]
Fail(msg) == [kind |-> "error", error |-> msg, location |-> Page(RootPath), ms |-> 1]
Redirect(to) == [kind |-> "redirect", error |-> <<>>, location |-> to, ms |-> 1]

\* what the server may answer to a request for a path
Responses(path) ==
  LET p == ServedPath(path)
  IN  CASE p = RootPath -> {Ok(1), Fail(Http500)}
        [] p = AboutPath -> {Ok(9), Fail(EmptyMessage), Fail(Http404)}
        [] p = BPath -> {Ok(1), Redirect(Page(PrivatePath)), Fail(RequestTimeout)}
        [] p = CPath -> {Ok(2), Redirect(Page(GPath)), Fail(Http403)}
        [] p = GPath -> {Ok(1), Redirect(Page(CPath))}
        [] p = LeafPath(1) -> {Ok(1), Fail(SocketHangUp)}
        [] OTHER -> {Ok(1)}

\* what the rendering proxy may answer
OxylabsResponses(path) ==
  IF ServedPath(path) \in {RootPath, AboutPath} THEN {Ok(1), Fail(OxylabsNoContent)} ELSE {Ok(1)}

\* Buffer.byteLength(html) of the served page
ContentLength(path) == Len(Hrefs(ServedPath(path))) + 1

(***************************************************************************)
(* robots.txt texts the site may serve; <<>> is also what a failed or      *)
(* non-2xx robots.txt request yields                                       *)
(***************************************************************************)
Line(d, v) == [directive |-> d, value |-> v]
SpiderAgent == <<"M", "L", "-", "s", "p">>
RobotsTexts ==
  { <<>>,
    <<Line("user-agent", <<"*">>), Line("disallow", PrivatePath), Line("crawl-delay", <<"2">>)>>,
    <<Line("user-agent", <<"m", "l">>), Line("crawl-delay", <<"5">>), Line("disallow", <<"/", "p", "$">>),
      Line("user-agent", <<"*">>), Line("disallow", <<"/">>)>> }

(***************************************************************************)
(* Configurations: DEFAULT_CONFIG merged with the caller's options         *)
(***************************************************************************)
NoSeed == MkUrl("invalid", "", <<>>, <<>>, FALSE)
\* a stand-in for the default exclusion list "*.pdf", "*.jpg", ...
DefaultExclude == << <<"*", ".", "p", "d", "f">> >>

DEFAULT_CONFIG ==
  [maxPages |-> DefaultMaxPages, maxDepth |-> DefaultMaxDepth, delayMs |-> DefaultDelayMs,
   includePatterns |-> <<>>, excludePatterns |-> DefaultExclude,
   respectRobotsTxt |-> TRUE, followRedirects |-> TRUE,
   userAgent |-> SpiderAgent, useOxylabs |-> FALSE]

WithSeed(seed, cfg) ==
  [seedUrl |-> seed, maxPages |-> cfg.maxPages, maxDepth |-> cfg.maxDepth, delayMs |-> cfg.delayMs,
   includePatterns |-> cfg.includePatterns, excludePatterns |-> cfg.excludePatterns,
   respectRobotsTxt |-> cfg.respectRobotsTxt, followRedirects |-> cfg.followRedirects,
   userAgent |-> cfg.userAgent, useOxylabs |-> cfg.useOxylabs]

\* option sets of the CLI / API caller for a new crawl
CrawlConfigs ==
  LET d == WithSeed(Page(RootPath), DEFAULT_CONFIG)
  IN  { d,
        [d EXCEPT !.seedUrl = MkUrl("https:", "Example.COM", RootPath, <<>>, TRUE)],
        [d EXCEPT !.seedUrl = NoSeed],
        [d EXCEPT !.maxPages = 1],
        [d EXCEPT !.maxDepth = 1],
        [d EXCEPT !.delayMs = 3000],
        [d EXCEPT !.respectRobotsTxt = FALSE],
        [d EXCEPT !.followRedirects = FALSE],
        [d EXCEPT !.useOxylabs = TRUE],
        [d EXCEPT !.includePatterns = << <<"/">>, <<"/", "?">> >>,
                  !.excludePatterns = << <<"/", "b">>, <<"*", "*", ".", "p", "d", "f">> >>] }

\* option sets of a caller of resume(): the CLI passes seedUrl ""
ResumeConfigs ==
  LET d == WithSeed(NoSeed, DEFAULT_CONFIG)
  IN  { d,
        [d EXCEPT !.respectRobotsTxt = FALSE],
        [d EXCEPT !.seedUrl = Page(RootPath)],
        [d EXCEPT !.respectRobotsTxt = FALSE, !.maxPages = 1, !.maxDepth = 1] }

(***************************************************************************)
(* Crawler state                                                           *)
(***************************************************************************)
VARIABLES
  config,         \* this.config
  queue,          \* this.queue: sequence of [url, depth]
  visited,        \* this.visited
  stats,          \* this.stats
  responseTimes,  \* this.responseTimes
  robotsParser,   \* this.robotsParser: [set, groups]; set = FALSE is null
  manifest,       \* this.manifest; aliased = TRUE when manifest.stats is the object this.stats
  crawlDir,       \* this.crawlDir
  pc,             \* where the process is: new, robots, loop, fetching, delay, done, failed, killed
  mode,           \* which entry point runs: none, crawl, resume
  item,           \* the dequeued item being fetched
  req,            \* the URL of the HTTP request in flight
  disk,           \* the crawl directory: state.json and manifest.json (<<>> when absent)
  runs,           \* number of processes started so far
  result,         \* CrawlResult.success: none, success, failure
  error,          \* CrawlResult.error: what was thrown to the catch block ("" when nothing was)
  fetchLog,       \* history: the (url, depth) of every fetchPage call of this run
  reqLog,         \* history: every URL an HTTP page request was sent for in this run
  inFlight,       \* history: fetchPage calls not yet settled
  delaysSince,    \* history: politeness delays completed since the last fetch ended
  delayWaited,    \* history: length of the last completed delay
  sinceCheckpoint, \* history: fetches completed in this run since the last checkpoint on disk
  committed,      \* history: URLs fetched, in any run, before the checkpoint now on disk
  skipsSeen,      \* history: the reasons for which this run skipped a dequeued item
  configured,     \* history: the configuration the Crawler of this run was constructed with
  timeSum,        \* history: sum of the response times of the pages counted in stats.pagesSuccessful
  savedTimeSum,   \* history: timeSum when the checkpoint now on disk was written
  arg,            \* the argument of the helper function under test (helper specifications)
  out             \* the values the helper function returned so far (helper specifications)

vars == <<config, queue, visited, stats, responseTimes, robotsParser, manifest, crawlDir, pc, mode,
          item, req, disk, runs, result, error, fetchLog, reqLog, inFlight, delaysSince,
          delayWaited, sinceCheckpoint, committed, skipsSeen, configured, timeSum, savedTimeSum,
          arg, out>>

\* the variables of the helper specifications; the crawler never touches them
calc == <<arg, out>>
NoArg == [kind |-> "none"]

memory == <<config, queue, visited, stats, responseTimes, robotsParser, manifest, crawlDir>>
history == <<fetchLog, reqLog, inFlight, delaysSince, delayWaited, sinceCheckpoint, committed,
             skipsSeen, configured, timeSum, savedTimeSum>>

PageTypes == {"homepage", "about", "team", "product", "news", "contact", "legal", "other"}

\* Crawler.initStats
initStats ==
  [pagesRequested |-> 0, pagesSuccessful |-> 0, pagesFailed |-> 0, totalBytes |-> 0,
   avgResponseTimeMs |-> 0, pagesByType |-> [t \in PageTypes |-> 0]]

\* Crawler.initManifest
initManifest(cfg) ==
  [crawlId |-> "", seedUrl |-> cfg.seedUrl, domain |-> "", completedAt |-> FALSE,
   config |-> cfg, aliased |-> TRUE, stats |-> initStats, pages |-> <<>>, errors |-> <<>>]

\* the message of the TypeError thrown by new URL(x) for an unparseable x
InvalidUrl == "Invalid URL"

\* the catch block of crawl() and resume(): error.message becomes CrawlResult.error
CatchMessage_Drops(thrown) == ""
CatchMessage(thrown) == thrown

NoItem == [url |-> NoSeed, depth |-> 0]
NoParser == [set |-> FALSE, groups |-> <<>>]
EmptyDisk == [state |-> <<>>, manifest |-> <<>>]

\* the fields of a new Crawler(cfg), the process being at p
Constructed(cfg, p) ==
  /\ config' = cfg
  /\ queue' = <<>>
  /\ visited' = {}
  /\ stats' = initStats
  /\ responseTimes' = <<>>
  /\ robotsParser' = NoParser
  /\ manifest' = initManifest(cfg)
  /\ crawlDir' = ""
  /\ pc' = p
  /\ mode' = "none"
  /\ item' = NoItem
  /\ req' = NoSeed
  /\ result' = "none"
  /\ error' = ""
  /\ fetchLog' = <<>>
  /\ reqLog' = {}
  /\ inFlight' = {}
  /\ delaysSince' = 0
  /\ delayWaited' = 0
  /\ sinceCheckpoint' = 0
  /\ skipsSeen' = {}
  /\ configured' = cfg
  /\ timeSum' = 0

Init ==
  /\ config \in CrawlConfigs
  /\ queue = <<>>
  /\ visited = {}
  /\ stats = initStats
  /\ responseTimes = <<>>
  /\ robotsParser = NoParser
  /\ manifest = initManifest(config)
  /\ crawlDir = ""
  /\ pc = "new"
  /\ mode = "none"
  /\ item = NoItem
  /\ req = NoSeed
  /\ disk = EmptyDisk
  /\ runs = 1
  /\ result = "none"
  /\ error = ""
  /\ fetchLog = <<>>
  /\ reqLog = {}
  /\ inFlight = {}
  /\ delaysSince = 0
  /\ delayWaited = 0
  /\ sinceCheckpoint = 0
  /\ committed = {}
  /\ skipsSeen = {}
  /\ configured = config
  /\ timeSum = 0
  /\ savedTimeSum = 0
  /\ arg = NoArg
  /\ out = <<>>

\* the manifest after this.stats changed to s
Synced(m, s) == IF m.aliased THEN [m EXCEPT !.stats = s] ELSE m

\* JSON.stringify(this.manifest)
ManifestJson(m, s) == [Synced(m, s) EXCEPT !.aliased = FALSE]

\* the CrawlState written by saveState
StateJson(id, q, v, s) == [crawlId |-> id, queue |-> q, visited |-> v, stats |-> s]

(***************************************************************************)
(* crawl()                                                                 *)
(***************************************************************************)
\* the delay crawl() adopts after reading robots.txt
AdoptedDelay(delayMs, robotsDelay) ==
  IF robotsDelay > 0 /\ robotsDelay * 1000 > delayMs THEN robotsDelay * 1000 ELSE delayMs

\* crawl() up to the first await: seed parsing, directories, manifest header
CrawlStart ==
  /\ UNCHANGED calc
  /\ pc = "new"
  /\ runs = 1
  /\ mode' = "crawl"
  /\ \E mkdirOk \in BOOLEAN :
       IF ~Parseable(config.seedUrl)
       THEN /\ pc' = "failed"
            /\ result' = "failure"
            /\ error' = CatchMessage(InvalidUrl)
            /\ UNCHANGED <<memory, item, req, disk, runs, history>>
       ELSE LET domain == ParseUrl(config.seedUrl).host
            IN  /\ crawlDir' = domain
                /\ IF ~mkdirOk
                   THEN /\ pc' = "failed"
                        /\ result' = "failure"
                        /\ error' = CatchMessage("mkdir")
                        /\ UNCHANGED <<manifest, queue>>
                   ELSE /\ manifest' = [manifest EXCEPT !.crawlId = domain, !.domain = domain]
                        /\ result' = "none"
                        /\ error' = ""
                        /\ IF config.respectRobotsTxt
                           THEN /\ pc' = "robots"
                                /\ queue' = queue
                           ELSE /\ pc' = "loop"
                                /\ queue' = Append(queue, [url |-> normalizeUrl(config.seedUrl), depth |-> 0])
                /\ UNCHANGED <<config, visited, stats, responseTimes, robotsParser, item, req, disk,
                               runs, history>>

\* crawl() after RobotsParser.fetch settled: crawl-delay, seed enqueued
CrawlRobots ==
  /\ UNCHANGED calc
  /\ pc = "robots"
  /\ mode = "crawl"
  /\ \E text \in RobotsTexts :
       LET groups == RobotsParser(text)
           robotsDelay == getCrawlDelay(groups, config.userAgent)
       IN  /\ robotsParser' = [set |-> TRUE, groups |-> groups]
           /\ config' = [config EXCEPT !.delayMs = AdoptedDelay(config.delayMs, robotsDelay)]
  /\ queue' = Append(queue, [url |-> normalizeUrl(config.seedUrl), depth |-> 0])
  /\ pc' = "loop"
  /\ UNCHANGED <<visited, stats, responseTimes, manifest, crawlDir, mode, item, req, disk, runs,
                 result, error, history>>

(***************************************************************************)
(* resume(stateFile)                                                       *)
(***************************************************************************)
\* the reads of resume() that may throw: state.json or manifest.json unreadable or corrupt
ReadFaults == {"none", "readState", "readManifest"}

\* resume() up to the first await: state and manifest loaded
ResumeStart ==
  /\ UNCHANGED calc
  /\ pc = "new"
  /\ mode' = "resume"
  /\ \E fault \in ReadFaults :
       IF disk.state = <<>> \/ fault = "readState"
       THEN /\ pc' = "failed"
            /\ result' = "failure"
            /\ error' = CatchMessage("readState")
            /\ UNCHANGED <<memory, item, req, disk, runs, history>>
       ELSE LET state == disk.state[1]
                manifestThrows == disk.manifest # <<>> /\ fault = "readManifest"
                robotsThrows == config.respectRobotsTxt /\ ~Parseable(config.seedUrl)
            IN  /\ queue' = state.queue
                /\ visited' = state.visited
                /\ stats' = state.stats
                /\ crawlDir' = state.crawlId
                /\ manifest' = IF disk.manifest # <<>> /\ ~manifestThrows THEN disk.manifest[1]
                                ELSE [manifest EXCEPT !.aliased = FALSE]
                /\ pc' = IF manifestThrows \/ robotsThrows THEN "failed"
                          ELSE IF config.respectRobotsTxt THEN "robots" ELSE "loop"
                /\ result' = IF manifestThrows \/ robotsThrows THEN "failure" ELSE "none"
                /\ error' = IF manifestThrows THEN CatchMessage("readManifest")
                             ELSE IF robotsThrows THEN CatchMessage(InvalidUrl) ELSE ""
                /\ timeSum' = savedTimeSum
                /\ UNCHANGED <<config, responseTimes, robotsParser, item, req, disk, runs, fetchLog,
                               reqLog, inFlight, delaysSince, delayWaited, sinceCheckpoint,
                               committed, skipsSeen, configured, savedTimeSum>>

\* resume() after RobotsParser.fetch settled
ResumeRobots ==
  /\ UNCHANGED calc
  /\ pc = "robots"
  /\ mode = "resume"
  /\ \E text \in RobotsTexts : robotsParser' = [set |-> TRUE, groups |-> RobotsParser(text)]
  /\ pc' = "loop"
  /\ UNCHANGED <<config, queue, visited, stats, responseTimes, manifest, crawlDir, mode, item, req,
                 disk, runs, result, error, history>>

(***************************************************************************)
(* processQueue()                                                          *)
(***************************************************************************)
\* the while condition
LoopCondition == Len(queue) > 0 /\ stats.pagesSuccessful < config.maxPages

\* item and normalizedUrl of the iteration that starts now
NextItem == Head(queue)
NormalizedUrl == normalizeUrl(NextItem.url)

SkipsVisited == NormalizedUrl \in visited
SkipsDepth_OffByOne == NextItem.depth > config.maxDepth + 1
SkipsDepth == NextItem.depth > config.maxDepth
SkipsRobots == robotsParser.set /\ ~isAllowed(robotsParser.groups, NormalizedUrl, config.userAgent)
SkipsFilter == ~shouldCrawl(config, NormalizedUrl)

\* a skipped iteration: the item is shifted off the queue and the loop continues
SkipItem_CountsFailure(reason) ==
  /\ queue' = Tail(queue)
  /\ pc' = "loop"
  /\ skipsSeen' = skipsSeen \cup {reason}
  /\ stats' = [stats EXCEPT !.pagesFailed = @ + 1, !.pagesRequested = @ + 1]
  /\ UNCHANGED <<config, visited, responseTimes, robotsParser, manifest, crawlDir, mode,
                 item, req, disk, runs, result, error, fetchLog, reqLog, inFlight, delaysSince,
                 delayWaited, sinceCheckpoint, committed, configured, timeSum, savedTimeSum>>

SkipItem(reason) ==
  /\ queue' = Tail(queue)
  /\ pc' = "loop"
  /\ skipsSeen' = skipsSeen \cup {reason}
  /\ UNCHANGED <<config, visited, stats, responseTimes, robotsParser, manifest, crawlDir, mode,
                 item, req, disk, runs, result, error, fetchLog, reqLog, inFlight, delaysSince,
                 delayWaited, sinceCheckpoint, committed, configured, timeSum, savedTimeSum>>

SkipVisited ==
  /\ UNCHANGED calc
  /\ pc = "loop"
  /\ LoopCondition
  /\ SkipsVisited
  /\ SkipItem("visited")

SkipDepth ==
  /\ UNCHANGED calc
  /\ pc = "loop"
  /\ LoopCondition
  /\ ~SkipsVisited
  /\ SkipsDepth
  /\ SkipItem("depth")

SkipRobots ==
  /\ UNCHANGED calc
  /\ pc = "loop"
  /\ LoopCondition
  /\ ~SkipsVisited
  /\ ~SkipsDepth
  /\ SkipsRobots
  /\ SkipItem("robots")

SkipFilter ==
  /\ UNCHANGED calc
  /\ pc = "loop"
  /\ LoopCondition
  /\ ~SkipsVisited
  /\ ~SkipsDepth
  /\ ~SkipsRobots
  /\ SkipsFilter
  /\ SkipItem("filter")

\* this.visited.add(normalizedUrl)
MarkVisited_Forgets(seen, url) == seen
MarkVisited(seen, url) == seen \cup {url}

\* the iteration marks the URL visited and calls fetchPage
StartFetch ==
  /\ UNCHANGED calc
  /\ pc = "loop"
  /\ LoopCondition
  /\ ~SkipsVisited
  /\ ~SkipsDepth
  /\ ~SkipsRobots
  /\ ~SkipsFilter
  /\ queue' = Tail(queue)
  /\ visited' = MarkVisited(visited, NormalizedUrl)
  /\ item' = [url |-> NormalizedUrl, depth |-> NextItem.depth]
  /\ req' = NormalizedUrl
  /\ pc' = "fetching"
  /\ fetchLog' = Append(fetchLog, [url |-> NormalizedUrl, depth |-> NextItem.depth])
  /\ reqLog' = reqLog \cup {NormalizedUrl}
  /\ inFlight' = inFlight \cup {NormalizedUrl}
  /\ UNCHANGED <<config, stats, responseTimes, robotsParser, manifest, crawlDir, mode, disk, runs,
                 result, error, delaysSince, delayWaited, sinceCheckpoint, committed, skipsSeen,
                 configured, timeSum, savedTimeSum>>

\* what the configured strategy may get back for a request
StrategyResponses(cfg, url) ==
  IF cfg.useOxylabs THEN OxylabsResponses(url.path) ELSE Responses(url.path)

\* fetchDirect follows a redirect: a new request to the Location, no other check
FollowsRedirect(cfg, r) == cfg.followRedirects /\ r.kind = "redirect"

FollowRedirect ==
  /\ UNCHANGED calc
  /\ pc = "fetching"
  /\ ~config.useOxylabs
  /\ \E r \in Responses(req.path) :
       /\ FollowsRedirect(config, r)
       /\ req' = ParseUrl(r.location)
       /\ reqLog' = reqLog \cup {ParseUrl(r.location)}
  /\ UNCHANGED <<memory, pc, mode, item, disk, runs, result, error, fetchLog, inFlight, delaysSince,
                 delayWaited, sinceCheckpoint, committed, skipsSeen, configured, timeSum,
                 savedTimeSum>>

\* the status fetchPage infers from the error text
InferStatus(errorMsg) ==
  IF includes(errorMsg, <<"4", "0", "4">>) THEN 404
  ELSE IF includes(errorMsg, <<"4", "0", "3">>) THEN 403
  ELSE IF includes(errorMsg, <<"5", "0", "0">>) THEN 500
  ELSE IF includes(errorMsg, <<"t", "i", "m", "e", "o", "u", "t">>) THEN 408
  ELSE 0

\* the PageResult fetchPage returns when the strategy resolved with the html of page `served`
SuccessResult_QueuesExternal(url, depth, served, ms) ==
  [url |-> url, status |-> 200, type |-> classifyPage(url),
   internalLinks |-> extractLinks(Hrefs(served), url).internal
                       \o extractLinks(Hrefs(served), url).external,
   externalLinks |-> extractLinks(Hrefs(served), url).external,
   depth |-> depth, responseTimeMs |-> ms, contentLength |-> ContentLength(served),
   error |-> <<>>, thrown |-> FALSE]

SuccessResult(url, depth, served, ms) ==
  [url |-> url, status |-> 200, type |-> classifyPage(url),
   internalLinks |-> extractLinks(Hrefs(served), url).internal,
   externalLinks |-> extractLinks(Hrefs(served), url).external,
   depth |-> depth, responseTimeMs |-> ms, contentLength |-> ContentLength(served),
   error |-> <<>>, thrown |-> FALSE]

\* the PageResult fetchPage returns from its catch block
FailureResult(url, depth, errorMsg, ms) ==
  [url |-> url, status |-> InferStatus(errorMsg), type |-> "other",
   internalLinks |-> <<>>, externalLinks |-> <<>>,
   depth |-> depth, responseTimeMs |-> ms, contentLength |-> 0,
   error |-> errorMsg, thrown |-> TRUE]

\* truthiness of result.error
HasError(res) == res.error # <<>>

\* Math.round(sum / length)
RECURSIVE Sum(_)
Sum(s) == IF s = <<>> THEN 0 ELSE Head(s) + Sum(Tail(s))
Average(times) == (2 * Sum(times) + Len(times)) \div (2 * Len(times))

\* the statistics after the failure branch
StatsAfterFailure(s) ==
  [s EXCEPT !.pagesFailed = @ + 1, !.pagesRequested = @ + 1]

\* the statistics after the success branch; times already holds the new response time
StatsAfterSuccess(s, res, times) ==
  [s EXCEPT !.pagesSuccessful = @ + 1, !.pagesRequested = @ + 1,
            !.totalBytes = @ + res.contentLength,
            !.pagesByType[res.type] = @ + 1,
            !.avgResponseTimeMs = Average(times)]

\* the queue after the links of a page were pushed
Enqueue(q, links, seen, depth) ==
  LET normalized == [i \in 1..Len(links) |-> normalizeUrl(links[i])]
      fresh == SelectSeq(normalized, LAMBDA u : u \notin seen)
  IN  q \o [i \in 1..Len(fresh) |-> [url |-> fresh[i], depth |-> depth]]

\* the periodic checkpoint condition
CheckpointDue_OnSuccess(s) == s.pagesSuccessful % CheckpointEvery = 0
CheckpointDue(s) == s.pagesRequested % CheckpointEvery = 0

\* the rate-limiting condition at the end of an iteration
NeedsDelay_OffByOne(q) == Len(q) > 1
NeedsDelay(q) == Len(q) > 0

\* the file system calls of one iteration that may throw
FsFaults(res, s) ==
  {"none"} \cup (IF HasError(res) THEN {} ELSE {"savePage"})
           \cup (IF CheckpointDue(s) THEN {"saveState", "saveManifest"} ELSE {})

\* the rest of the iteration once fetchPage returned res; fault names the write that throws
Iteration(res, fault) ==
  LET failed == HasError(res)
      times1 == IF failed THEN responseTimes ELSE Append(responseTimes, res.responseTimeMs)
      stats1 == IF failed THEN StatsAfterFailure(stats) ELSE StatsAfterSuccess(stats, res, times1)
      pageThrows == ~failed /\ fault = "savePage"
      manifest1 ==
        IF failed
        THEN [manifest EXCEPT !.errors = Append(@, [url |-> res.url, error |-> res.error,
                                                     status |-> res.status])]
        ELSE IF pageThrows THEN manifest
        ELSE [manifest EXCEPT !.pages = Append(@, [url |-> res.url, status |-> res.status,
                                                   type |-> res.type, depth |-> res.depth,
                                                   contentLength |-> res.contentLength])]
      queue1 == IF failed \/ pageThrows THEN queue
                ELSE Enqueue(queue, res.internalLinks, visited, item.depth + 1)
      due == ~pageThrows /\ CheckpointDue(stats1)
      stateThrows == due /\ fault = "saveState"
      manifestThrows == due /\ fault = "saveManifest"
      stateWritten == due /\ ~stateThrows
      manifestWritten == due /\ ~stateThrows /\ ~manifestThrows
      thrown == pageThrows \/ stateThrows \/ manifestThrows
  IN  /\ responseTimes' = times1
      /\ stats' = stats1
      /\ manifest' = Synced(manifest1, stats1)
      /\ queue' = queue1
      /\ disk' = [state |-> IF stateWritten
                            THEN <<StateJson(crawlDir, queue1, visited, stats1)>>
                            ELSE disk.state,
                  manifest |-> IF manifestWritten
                               THEN <<ManifestJson(manifest1, stats1)>>
                               ELSE disk.manifest]
      /\ pc' = IF thrown THEN "failed" ELSE IF NeedsDelay(queue1) THEN "delay" ELSE "loop"
      /\ result' = IF thrown THEN "failure" ELSE result
      /\ error' = IF thrown THEN CatchMessage(fault) ELSE error
      /\ inFlight' = inFlight \ {res.url}
      /\ delaysSince' = 0
      /\ sinceCheckpoint' = IF stateWritten THEN 0 ELSE sinceCheckpoint + 1
      /\ committed' = IF stateWritten
                      THEN committed \cup {fetchLog[i].url : i \in 1..Len(fetchLog)}
                      ELSE committed
      /\ timeSum' = IF failed THEN timeSum ELSE timeSum + res.responseTimeMs
      /\ savedTimeSum' = IF stateWritten THEN timeSum' ELSE savedTimeSum
      /\ UNCHANGED <<config, visited, robotsParser, crawlDir, mode, item, req, runs, fetchLog,
                     reqLog, delayWaited, skipsSeen, configured>>

\* the strategy resolved with html: fetchPage extracts and the iteration goes on
FetchResolved ==
  /\ UNCHANGED calc
  /\ pc = "fetching"
  /\ \E r \in StrategyResponses(config, req) :
       /\ r.kind # "error"
       /\ config.useOxylabs \/ ~FollowsRedirect(config, r)
       /\ LET served == IF r.kind = "ok" THEN ServedPath(req.path) ELSE <<>>
              res == SuccessResult(item.url, item.depth, served, r.ms)
          IN  \E fault \in FsFaults(res, StatsAfterSuccess(stats, res, <<r.ms>>)) :
                Iteration(res, fault)

\* the strategy rejected: fetchPage catches and returns a record carrying the message
FetchRejected ==
  /\ UNCHANGED calc
  /\ pc = "fetching"
  /\ \E r \in StrategyResponses(config, req) :
       /\ r.kind = "error"
       /\ LET res == FailureResult(item.url, item.depth, r.error, r.ms)
          IN  \E fault \in FsFaults(res, IF HasError(res) THEN StatsAfterFailure(stats)
                                         ELSE StatsAfterSuccess(stats, res, <<r.ms>>)) :
                Iteration(res, fault)

\* the politeness delay elapsed
DelayElapsed ==
  /\ UNCHANGED calc
  /\ pc = "delay"
  /\ pc' = "loop"
  /\ delaysSince' = delaysSince + 1
  /\ delayWaited' = config.delayMs
  /\ UNCHANGED <<memory, mode, item, req, disk, runs, result, error, fetchLog, reqLog, inFlight,
                 sinceCheckpoint, committed, skipsSeen, configured, timeSum, savedTimeSum>>

\* whether the entry point removes the checkpoint after the loop
UnlinksState(m) == m = "resume"

\* the loop ended: completion timestamp, final manifest, result
Finalize ==
  /\ UNCHANGED calc
  /\ pc = "loop"
  /\ ~LoopCondition
  /\ \E writeOk \in BOOLEAN :
       LET manifest1 == [manifest EXCEPT !.completedAt = TRUE, !.aliased = TRUE, !.stats = stats]
       IN  /\ manifest' = manifest1
           /\ IF writeOk
              THEN /\ disk' = [disk EXCEPT !.manifest = <<ManifestJson(manifest1, stats)>>,
                                           !.state = IF UnlinksState(mode) THEN <<>> ELSE @]
                   /\ pc' = "done"
                   /\ result' = "success"
                   /\ error' = ""
              ELSE /\ disk' = disk
                   /\ pc' = "failed"
                   /\ result' = "failure"
                   /\ error' = CatchMessage("saveManifest")
  /\ UNCHANGED <<config, queue, visited, stats, responseTimes, robotsParser, crawlDir, mode, item,
                 req, runs, history>>

(***************************************************************************)
(* The operator: SIGINT and a later resume                                 *)
(***************************************************************************)
\* process.on("SIGINT"): the process exits and its memory is gone; nothing is written
Interrupt ==
  /\ UNCHANGED calc
  /\ pc \in {"robots", "fetching", "delay"}
  /\ Constructed(WithSeed(NoSeed, DEFAULT_CONFIG), "killed")
  /\ UNCHANGED <<disk, runs, committed, savedTimeSum>>

\* main() of a new process started with --resume: a new Crawler is constructed
Restart ==
  /\ UNCHANGED calc
  /\ pc = "killed"
  /\ runs < MaxRuns
  /\ runs' = runs + 1
  /\ UNCHANGED <<disk, committed, savedTimeSum>>
  /\ \E cfg \in ResumeConfigs : Constructed(cfg, "new")

Next ==
  \/ CrawlStart
  \/ CrawlRobots
  \/ ResumeStart
  \/ ResumeRobots
  \/ SkipVisited
  \/ SkipDepth
  \/ SkipRobots
  \/ SkipFilter
  \/ StartFetch
  \/ FollowRedirect
  \/ FetchResolved
  \/ FetchRejected
  \/ DelayElapsed
  \/ Finalize
  \/ Interrupt
  \/ Restart

Spec == Init /\ [][Next]_vars

\* two crawls: the section of the site below /b, one level deep, /e excluded; and the
\* whole site from the root, one level deep
LiveConfigs ==
  { [WithSeed(Page(BPath), DEFAULT_CONFIG) EXCEPT !.maxDepth = 1,
                                                  !.excludePatterns = << <<"/", "e">> >>],
    [WithSeed(Page(RootPath), DEFAULT_CONFIG) EXCEPT !.maxDepth = 1] }

LiveInit ==
  /\ config \in LiveConfigs
  /\ queue = <<>>
  /\ visited = {}
  /\ stats = initStats
  /\ responseTimes = <<>>
  /\ robotsParser = NoParser
  /\ manifest = initManifest(config)
  /\ crawlDir = ""
  /\ pc = "new"
  /\ mode = "none"
  /\ item = NoItem
  /\ req = NoSeed
  /\ disk = EmptyDisk
  /\ runs = 1
  /\ result = "none"
  /\ error = ""
  /\ fetchLog = <<>>
  /\ reqLog = {}
  /\ inFlight = {}
  /\ delaysSince = 0
  /\ delayWaited = 0
  /\ sinceCheckpoint = 0
  /\ committed = {}
  /\ skipsSeen = {}
  /\ configured = config
  /\ timeSum = 0
  /\ savedTimeSum = 0
  /\ arg = NoArg
  /\ out = <<>>

\* the steps of a pending page fetch: every request sent is answered by a response, an
\* error or the timeout
FetchStep == FetchRejected \/ FollowRedirect \/ FetchResolved

\* the steps the process takes by itself
ProcessStep ==
  \/ CrawlStart
  \/ CrawlRobots
  \/ ResumeRobots
  \/ SkipVisited
  \/ SkipDepth
  \/ SkipRobots
  \/ SkipFilter
  \/ StartFetch
  \/ DelayElapsed
  \/ Finalize

\* the crawler under a scheduler that runs every ready continuation and a network that
\* answers every request; which answer the server gives is not constrained
LiveSpec == LiveInit /\ [][Next]_vars /\ WF_vars(FetchStep) /\ WF_vars(ProcessStep)

(***************************************************************************)
(* Properties                                                              *)
(***************************************************************************)
Max(a, b) == IF a >= b THEN a ELSE b
InLoop == pc \in {"loop", "fetching", "delay"}
FetchedUrls == {fetchLog[i].url : i \in 1..Len(fetchLog)}

\* C1: within one run the loop calls fetchPage at most once for a normalized URL, whatever
\* cycles, self-links, repeated links and alternative spellings the pages contain
C1_FetchedAtMostOnce ==
  \A i, j \in 1..Len(fetchLog) : fetchLog[i].url = fetchLog[j].url => i = j

\* a link to an already fetched page came back through the queue and was skipped
C1_Witness ==
  /\ "visited" \in skipsSeen
  /\ Page(AboutPath) \in FetchedUrls
  /\ Len(fetchLog) >= 3
  /\ pc = "done"

\* C2 (as claimed): pagesSuccessful <= maxPages in every reachable state; the loop is left
\* only with an empty frontier or pagesSuccessful >= maxPages; with maxPages = 1 and a seed
\* page that succeeds the run completes with that one fetch and its links still queued
C2_Original ==
  /\ stats.pagesSuccessful <= config.maxPages
  /\ pc = "done" => (Len(queue) = 0 \/ stats.pagesSuccessful >= config.maxPages)
  /\ (pc = "done" /\ config.maxPages = 1 /\ stats.pagesSuccessful = 1 /\ Len(fetchLog) >= 1)
       => /\ Len(fetchLog) = 1
          /\ Len(queue) >= 10
          /\ \A k \in 1..Len(queue) : queue[k].url \notin FetchedUrls

\* C3: a link found on a page of depth d is enqueued with depth d + 1, the seed with depth 0,
\* and no item deeper than maxDepth is fetched
C3_DepthBound ==
  [][ /\ (pc = "fetching" =>
            \A k \in (Len(queue) + 1)..Len(queue') : queue'[k].depth = item.depth + 1)
      /\ (mode' = "crawl" /\ pc \in {"new", "robots"} =>
            \A k \in 1..Len(queue') : queue'[k].depth = 0)
      /\ \A i \in 1..Len(fetchLog') : fetchLog'[i].depth <= config'.maxDepth ]_vars

\* an item beyond maxDepth was dropped and a page at depth maxDepth was fetched
C3_Witness ==
  /\ "depth" \in skipsSeen
  /\ config.maxDepth >= 1
  /\ \E i \in 1..Len(fetchLog) : fetchLog[i].depth = config.maxDepth

\* C4 (as claimed): with robots compliance on, no page request is ever sent for a URL that
\* isAllowed rejects for the configured user agent, redirects included
C4_Original ==
  robotsParser.set =>
    \A u \in reqLog : isAllowed(robotsParser.groups, u, config.userAgent)

\* the crawl-delay of the loaded robots.txt for the configured agent, in ms
RobotsDelayMs ==
  LET d == getCrawlDelay(robotsParser.groups, config.userAgent)
  IN  IF d = NoDelay THEN 0 ELSE d * 1000

\* C5 (as claimed): in a run with robots compliance, started by crawl() or by resume(), the
\* delay between iterations is max(configured delay, crawl-delay of robots.txt)
C5_Original ==
  (robotsParser.set /\ InLoop) =>
    config.delayMs = Max(configured.delayMs, RobotsDelayMs)

\* C6: at most one fetchPage call is pending at any time, and when a fetch starts after an
\* earlier fetch of the run, exactly one politeness delay of config.delayMs has elapsed
\* since that fetch ended
C6_SequentialAndPolite ==
  /\ Cardinality(inFlight) <= 1
  /\ inFlight # {} => pc = "fetching"
  /\ (pc = "fetching" /\ Len(fetchLog) >= 2) =>
       (delaysSince = 1 /\ delayWaited = config.delayMs)

\* a later fetch of a run is pending, skipped items lying between it and the previous fetch
C6_Witness ==
  /\ pc = "fetching"
  /\ Len(fetchLog) >= 4
  /\ skipsSeen # {}
  /\ delaysSince = 1

\* C7 (as claimed): when the fetch strategy fails (and no checkpoint write throws in the same
\* iteration), pagesFailed and pagesRequested grow by one, one error entry is appended, no
\* link is enqueued and the loop goes on
C7_Original ==
  [][ (FetchRejected /\ pc' # "failed") =>
        /\ stats'.pagesFailed = stats.pagesFailed + 1
        /\ stats'.pagesRequested = stats.pagesRequested + 1
        /\ stats'.pagesSuccessful = stats.pagesSuccessful
        /\ Len(manifest'.errors) = Len(manifest.errors) + 1
        /\ manifest'.pages = manifest.pages
        /\ queue' = queue
        /\ pc' \in {"loop", "delay"} ]_vars

\* C8: an iteration whose item is already visited, too deep, disallowed by robots or
\* rejected by the filters starts no fetch and leaves the statistics and the manifest's
\* page and error lists unchanged
C8_SkipChangesNothing ==
  [][ (pc = "loop" /\ LoopCondition /\ (SkipsVisited \/ SkipsDepth \/ SkipsRobots \/ SkipsFilter))
        => /\ pc' # "fetching"
           /\ fetchLog' = fetchLog
           /\ reqLog' = reqLog
           /\ stats' = stats
           /\ manifest'.pages = manifest.pages
           /\ manifest'.errors = manifest.errors ]_vars

\* one run skipped items for three of the reasons after it had fetched pages
C8_Witness ==
  /\ {"visited", "depth", "robots"} \subseteq skipsSeen
  /\ stats.pagesRequested >= 10

\* C9: state and manifest are written whenever pagesRequested reaches a multiple of 10, so
\* while a fetch is pending or the loop sleeps at most 9 completed fetches are missing
\* from the checkpoint on disk
C9_CheckpointEveryTen ==
  /\ pc \in {"fetching", "delay"} => sinceCheckpoint <= CheckpointEvery - 1
  /\ InLoop => sinceCheckpoint = stats.pagesRequested % CheckpointEvery
  /\ (InLoop /\ disk.state # <<>>) =>
       disk.state[1].stats.pagesRequested = stats.pagesRequested - sinceCheckpoint
  /\ (InLoop /\ disk.manifest # <<>>) =>
       Len(disk.manifest[1].pages) + Len(disk.manifest[1].errors)
         = stats.pagesRequested - sinceCheckpoint

\* nine fetches, a failed one among them, completed after a checkpoint and the loop sleeps
C9_Witness ==
  /\ pc = "delay"
  /\ disk.state # <<>>
  /\ sinceCheckpoint = CheckpointEvery - 1
  /\ stats.pagesFailed > 0

\* C10 (as claimed): after a run that returned success = true, from crawl() or resume(),
\* no state.json is left in the crawl directory
C10_Original ==
  result = "success" => disk.state = <<>>

(***************************************************************************)
(* Helper specifications: the pure functions applied to enumerated inputs  *)
(***************************************************************************)
\* the fields of the Crawler, which the helper specifications leave alone
crawler == <<config, queue, visited, stats, responseTimes, robotsParser, manifest, crawlDir, pc,
             mode, item, req, disk, runs, result, error, history>>

\* a constructed Crawler on which no entry point was called
CrawlerIdle ==
  /\ config = WithSeed(NoSeed, DEFAULT_CONFIG)
  /\ queue = <<>>
  /\ visited = {}
  /\ stats = initStats
  /\ responseTimes = <<>>
  /\ robotsParser = NoParser
  /\ manifest = initManifest(config)
  /\ crawlDir = ""
  /\ pc = "new"
  /\ mode = "none"
  /\ item = NoItem
  /\ req = NoSeed
  /\ disk = EmptyDisk
  /\ runs = 1
  /\ result = "none"
  /\ error = ""
  /\ fetchLog = <<>>
  /\ reqLog = {}
  /\ inFlight = {}
  /\ delaysSince = 0
  /\ delayWaited = 0
  /\ sinceCheckpoint = 0
  /\ committed = {}
  /\ skipsSeen = {}
  /\ configured = config
  /\ timeSum = 0
  /\ savedTimeSum = 0

\* how often normalizeUrl is applied in a row
MaxApply == 2

\* the strings normalizeUrl is applied to
UrlInputs ==
  { MkUrl("https:", h, p, q, f) :
      h \in {"example.com", "Example.COM"},
      p \in {RootPath, AboutPath, AboutPath \o <<"/">>, AboutPath \o <<"/", "/">>, <<"/", "/">>},
      q \in {<<>>, <<"x", "y">>, <<"y", "x">>},
      f \in BOOLEAN }
  \cup {NoSeed}

UrlInit ==
  /\ CrawlerIdle
  /\ arg \in {[kind |-> "url", url |-> u] : u \in UrlInputs}
  /\ out = <<>>

\* normalizeUrl applied to the argument, then to its own result
Normalize ==
  /\ arg.kind = "url"
  /\ Len(out) < MaxApply
  /\ out' = Append(out, normalizeUrl(IF out = <<>> THEN arg.url ELSE out[Len(out)]))
  /\ UNCHANGED <<arg, crawler>>

UrlNext == Normalize

UrlSpec == UrlInit /\ [][UrlNext]_vars

\* paths and patterns of the robots.txt examples
PrivateDir == <<"/", "p", "r", "i", "v", "a", "t", "e">>
PrivateX == PrivateDir \o <<"/", "x">>
PublicDir == <<"/", "p", "u", "b", "l", "i", "c">>
AbPath == <<"/", "a", "b">>
AcPath == <<"/", "a", "c">>
AnyAgent == <<"*">>
MlToken == <<"m", "l">>
OtherAgent == <<"o">>
LongAgent == <<"x", "M", "L", "-", "s", "p", "y">>

\* User-agent: * / Disallow: /private
DisallowPrivate == <<Line("user-agent", AnyAgent), Line("disallow", PrivateDir)>>
\* User-agent: * / Disallow: /a$
DisallowAEnd == <<Line("user-agent", AnyAgent), Line("disallow", AboutPath \o <<"$">>)>>
\* User-agent: * / Disallow: /p*x
DisallowStar == <<Line("user-agent", AnyAgent), Line("disallow", <<"/", "p", "*", "x">>)>>
\* User-agent: ml / Disallow: (empty) / User-agent: * / Disallow: /
AllowAllThenWildcard ==
  <<Line("user-agent", MlToken), Line("disallow", <<>>),
    Line("user-agent", AnyAgent), Line("disallow", RootPath)>>

\* the robots.txt texts the policy functions are applied to
RobotsInputs ==
  RobotsTexts \cup
  { DisallowPrivate, DisallowAEnd, DisallowStar, AllowAllThenWildcard,
    \* equal stripped length, Allow first and Allow last
    <<Line("user-agent", AnyAgent), Line("allow", AboutPath), Line("disallow", AboutPath \o <<"*">>)>>,
    <<Line("user-agent", AnyAgent), Line("disallow", AboutPath \o <<"*">>), Line("allow", AboutPath)>>,
    \* a longer rule against a shorter one, in both orders
    <<Line("user-agent", AnyAgent), Line("disallow", AboutPath), Line("allow", AbPath)>>,
    <<Line("user-agent", AnyAgent), Line("allow", AbPath), Line("disallow", AboutPath)>>,
    <<Line("user-agent", AnyAgent), Line("allow", RootPath), Line("disallow", <<"/", "p", "*">>),
      Line("allow", PrivateX \o <<"$">>)>>,
    \* groups for a shorter token, the exact token and the wildcard
    <<Line("user-agent", MlToken), Line("disallow", AboutPath),
      Line("user-agent", SpiderAgent), Line("disallow", AbPath), Line("crawl-delay", <<"2">>),
      Line("user-agent", AnyAgent), Line("disallow", RootPath)>>,
    \* the exact token declared before the shorter one, which shares a group with another
    <<Line("user-agent", SpiderAgent), Line("crawl-delay", <<"5">>), Line("disallow", PublicDir),
      Line("user-agent", OtherAgent \o <<"x">>), Line("user-agent", MlToken),
      Line("disallow", RootPath)>>,
    \* no wildcard group
    <<Line("user-agent", MlToken), Line("disallow", RootPath), Line("crawl-delay", <<"0">>)>>,
    \* malformed: a rule and a delay before any group, an unknown directive, a line without
    \* a colon, a User-agent without a value, a delay that is no number
    <<Line("disallow", RootPath), Line("crawl-delay", <<"2">>), Line("junk", <<"x">>),
      Line("", <<>>), Line("user-agent", <<>>), Line("user-agent", AnyAgent),
      Line("disallow", PrivateDir), Line("crawl-delay", <<"x">>), Line("junk", <<>>)>> }

\* the agent strings the policy is asked for
AgentInputs == {SpiderAgent, MlToken, OtherAgent, LongAgent}

\* the URL strings the policy is asked about
RobotsUrls ==
  { Page(p) : p \in {RootPath, AboutPath, AbPath, AcPath, PrivateDir, PrivateX, PublicDir,
                     PrivatePath} }
  \cup { MkUrl("https:", "example.com", AboutPath, <<"x">>, FALSE), NoSeed }

\* the outcomes of the robots.txt request
RobotsResponses == {"ok", "non2xx", "network"}

RobotsInit ==
  /\ CrawlerIdle
  /\ arg \in {[kind |-> "robots", text |-> t, url |-> u, agent |-> a, response |-> r] :
                t \in RobotsInputs, u \in RobotsUrls, a \in AgentInputs, r \in RobotsResponses}
  /\ out = <<>>

\* RobotsParser.fetch settled: out[1] is the parsed policy
FetchPolicy ==
  /\ arg.kind = "robots"
  /\ Len(out) = 0
  /\ out' = <<RobotsFetch(arg.response, arg.text)>>
  /\ UNCHANGED <<arg, crawler>>

\* findMatchingGroup for the agent: out[2] is the index of the group, 0 for null
FindGroup ==
  /\ arg.kind = "robots"
  /\ Len(out) = 1
  /\ out' = Append(out, findMatchingGroup(out[1], arg.agent))
  /\ UNCHANGED <<arg, crawler>>

\* isAllowed(url, agent): out[3]
CheckAllowed ==
  /\ arg.kind = "robots"
  /\ Len(out) = 2
  /\ out' = Append(out, isAllowed(out[1], arg.url, arg.agent))
  /\ UNCHANGED <<arg, crawler>>

\* getCrawlDelay(agent): out[4]
CheckDelay ==
  /\ arg.kind = "robots"
  /\ Len(out) = 3
  /\ out' = Append(out, getCrawlDelay(out[1], arg.agent))
  /\ UNCHANGED <<arg, crawler>>

RobotsNext ==
  \/ FetchPolicy
  \/ FindGroup
  \/ CheckAllowed
  \/ CheckDelay

RobotsSpec == RobotsInit /\ [][RobotsNext]_vars

\* C11 (as claimed): when the operator interrupts a running crawl, a state file holding the
\* frontier, the visited set and the statistics of that moment is on disk afterwards
C11_Original ==
  [][ Interrupt =>
        /\ disk'.state # <<>>
        /\ disk'.state[1].queue = queue
        /\ disk'.state[1].visited = visited
        /\ disk'.state[1].stats = stats ]_vars

\* the failures of a run that come from the file system
FsErrors == {"readState", "readManifest", "savePage", "saveState", "saveManifest"}

\* C12 (as claimed): a run resumed from a persisted checkpoint completes unless the file
\* system fails, as an uninterrupted run does, and it fetches no URL that was fetched
\* before the checkpoint it started from
C12_Original ==
  [][ /\ (mode' = "resume" /\ pc = "new" /\ pc' = "failed" /\ disk.state # <<>>)
            => error' \in FsErrors
      /\ (mode = "resume" /\ Len(fetchLog') > Len(fetchLog))
            => fetchLog'[Len(fetchLog')].url \notin committed ]_vars

\* C13 (as claimed): a resume constructed as the CLI does, with the empty seed URL, gets past
\* the robots.txt re-fetch into the loop with the restored frontier, visited set and
\* statistics; that step never fails the resume
C13_Original ==
  [][ (pc = "new" /\ mode' = "resume" /\ error' \notin FsErrors) =>
        /\ pc' \in {"robots", "loop"}
        /\ queue' = disk.state[1].queue
        /\ visited' = disk.state[1].visited
        /\ stats' = disk.state[1].stats ]_vars

\* C14: every failure that reaches crawl() or resume() (invalid seed, mkdir, a page or
\* checkpoint write, an unreadable state or manifest file) ends the run in FAILED with
\* success = false and a non-empty error message, and the catch block leaves state.json and
\* manifest.json as they were when the exception was thrown
C14_FailuresAreReported ==
  [][ /\ (pc = "new" /\ mode' = "crawl" /\ ~Parseable(config.seedUrl)) => pc' = "failed"
      /\ (pc = "new" /\ mode' = "resume" /\ disk.state = <<>>) => pc' = "failed"
      /\ (pc' = "failed") <=> (result' = "failure")
      /\ (pc' = "failed") <=> (error' # "")
      /\ (pc # "failed" /\ pc' = "failed") =>
            /\ disk'.manifest = disk.manifest
            /\ \/ disk'.state = disk.state
               \/ /\ error' = "saveManifest"
                  /\ pc = "fetching"
                  /\ disk'.state = <<StateJson(crawlDir', queue', visited', stats')>> ]_vars

\* a run failed on a manifest write while a checkpoint of it was on disk
C14_Witness ==
  /\ pc = "failed"
  /\ result = "failure"
  /\ error = "saveManifest"
  /\ disk.state # <<>>
  /\ disk.manifest # <<>>

\* C15 (as claimed): normalizeUrl applied to its own result returns that result, for URLs
\* with several trailing slashes, fragments, unsorted queries, upper-case hosts and for
\* unparseable strings
C15_Original ==
  Len(out) >= 2 => out[2] = out[1]

\* the policy functions answered for a well-formed URL under the text the server sent
Answered == Len(out) >= 3 /\ arg.response = "ok" /\ Parseable(arg.url)

\* C16: isAllowed answers TRUE or FALSE for every text, URL string and agent, and a policy
\* built from an empty text, a non-2xx response or a failed request allows every
\* well-formed URL
C16_PermissiveFallback ==
  /\ Len(out) >= 3 => out[3] \in BOOLEAN
  /\ Len(out) >= 1 /\ (arg.response # "ok" \/ arg.text = <<>>) => out[1] = <<>>
  /\ (Len(out) >= 3 /\ Parseable(arg.url) /\ (arg.response # "ok" \/ arg.text = <<>>))
       => out[3] = TRUE

\* robots.txt forbids the URL for every agent, the request for it failed, the URL is allowed
C16_Witness ==
  /\ Len(out) >= 3
  /\ arg.response = "network"
  /\ arg.text = <<Line("user-agent", MlToken), Line("crawl-delay", <<"5">>),
                  Line("disallow", <<"/", "p", "$">>),
                  Line("user-agent", AnyAgent), Line("disallow", RootPath)>>
  /\ arg.url = Page(PrivatePath)
  /\ out[3] = TRUE

IsPrefix(p, t) == Len(p) <= Len(t) /\ SubSeq(t, 1, Len(p)) = p

\* C17: a pattern matches path+query as a prefix, "*" stands for any run of characters and a
\* trailing "$" ties the match to the end: Disallow: /private forbids /private/x and allows
\* /public; Disallow: /a$ forbids /a and allows /ab
C17_PathPatterns ==
  Answered =>
    LET target == PathAndQuery(ParseUrl(arg.url))
    IN  /\ arg.text = DisallowPrivate => (out[3] = ~IsPrefix(PrivateDir, target))
        /\ arg.text = DisallowAEnd => (out[3] = (target # AboutPath))
        /\ arg.text = DisallowStar =>
             (out[3] = ~(\E i \in 3..Len(target) : IsPrefix(<<"/", "p">>, target) /\ target[i] = "x"))
        /\ (arg.text = DisallowPrivate /\ arg.url = Page(PrivateX)) => out[3] = FALSE
        /\ (arg.text = DisallowPrivate /\ arg.url = Page(PublicDir)) => out[3] = TRUE
        /\ (arg.text = DisallowAEnd /\ arg.url = Page(AboutPath)) => out[3] = FALSE
        /\ (arg.text = DisallowAEnd /\ arg.url = Page(AbPath)) => out[3] = TRUE

\* /ab was asked about under Disallow: /a$ and is allowed
C17_Witness ==
  /\ Answered
  /\ arg.text = DisallowAEnd
  /\ arg.url = Page(AbPath)
  /\ out[3] = TRUE

\* the rules of the selected group that match the URL, and those of greatest stripped length
MatchingRules(rules, target) == {i \in 1..Len(rules) : pathMatches(rules[i].path, target)}
LongestRules(rules, target) ==
  {i \in MatchingRules(rules, target) :
     \A j \in MatchingRules(rules, target) :
       Len(StripStars(rules[i].path)) >= Len(StripStars(rules[j].path))}

\* C18: within the selected group the verdict is that of the matching rule of greatest
\* wildcard-stripped length, whatever the order of the rules; Allow wins among rules of
\* equal length; no matching rule means allowed
C18_LongestRuleWins ==
  (Answered /\ out[2] # 0) =>
    LET rules == out[1][out[2]].rules
        target == PathAndQuery(ParseUrl(arg.url))
    IN  out[3] = (\/ MatchingRules(rules, target) = {}
                  \/ \E i \in LongestRules(rules, target) : rules[i].allow)

\* an Allow rule listed before a Disallow rule of the same stripped length, both matching
C18_Witness ==
  /\ Answered
  /\ arg.text = <<Line("user-agent", AnyAgent), Line("allow", AboutPath),
                  Line("disallow", AboutPath \o <<"*">>)>>
  /\ arg.url = Page(AbPath)
  /\ out[3] = TRUE

\* the tokens of a policy that occur in the agent string: <<group, index>>
SubstringTokens(groups, ua) ==
  {gi \in UNION {{<<g, i>> : i \in 1..Len(groups[g].userAgents)} : g \in 1..Len(groups)} :
     /\ groups[gi[1]].userAgents[gi[2]] # AnyAgent
     /\ includes(ua, groups[gi[1]].userAgents[gi[2]])}

\* C19: the group applied to an agent declares a token equal to the agent string if there is
\* one, else the longest token contained in the agent string, else "*"; with no such group
\* every URL is allowed and the crawl-delay is null
C19_GroupSelection ==
  Len(out) >= 2 =>
    LET groups == out[1]
        ua == toLowerCase(arg.agent)
        exact == {g \in 1..Len(groups) : HasAgent(groups[g], ua)}
        sub == SubstringTokens(groups, ua)
        star == {g \in 1..Len(groups) : HasAgent(groups[g], AnyAgent)}
    IN  /\ IF exact # {} THEN out[2] \in exact
           ELSE IF sub # {}
                THEN \E gi \in sub :
                       /\ gi[1] = out[2]
                       /\ \A hj \in sub : Len(groups[gi[1]].userAgents[gi[2]])
                                            >= Len(groups[hj[1]].userAgents[hj[2]])
           ELSE IF star # {} THEN out[2] \in star
           ELSE out[2] = 0
        /\ (Len(out) >= 3 /\ out[2] = 0 /\ Parseable(arg.url)) => out[3] = TRUE
        /\ (Len(out) >= 4 /\ out[2] = 0) => out[4] = NoDelay
        /\ (Len(out) >= 4 /\ out[2] # 0) => out[4] = groups[out[2]].crawlDelay

\* the group of the exact token was chosen over an earlier group with a shorter token and
\* over the wildcard group
C19_Witness ==
  /\ Len(out) >= 4
  /\ arg.response = "ok"
  /\ arg.agent = SpiderAgent
  /\ Len(out[1]) = 3
  /\ out[2] = 2
  /\ out[4] = 2

\* the groups were built only from User-agent lines that directly follow one another
SharedOnlyWhenAdjacent(text, groups) ==
  \A g \in 1..Len(groups) :
    LET k == Len(groups[g].userAgents)
    IN  \E i \in 1..(Len(text) - k + 1) :
          \A j \in 0..(k - 1) :
            /\ text[i + j].directive = "user-agent"
            /\ toLowerCase(text[i + j].value) = groups[g].userAgents[j + 1]

\* C20 (as claimed): an empty Disallow means allow everything for the agents of its group;
\* the rules of a later group are not applied to them, and only User-agent lines with no
\* line in between share rules
C20_Original ==
  /\ (Len(out) >= 1 /\ arg.response = "ok") => SharedOnlyWhenAdjacent(arg.text, out[1])
  /\ (Answered /\ arg.text = AllowAllThenWildcard /\ arg.agent = MlToken) => out[3] = TRUE

\* C21: every URL the loop starts a fetch for, the seed included, matches no exclude pattern
\* and, when include patterns are configured, at least one of them; a URL that matches an
\* exclude and an include pattern is not fetched
C21_FiltersRespected ==
  \A i \in 1..Len(fetchLog) :
    /\ ~MatchesAny(config.excludePatterns, fetchLog[i].url)
    /\ Len(config.includePatterns) > 0 => MatchesAny(config.includePatterns, fetchLog[i].url)
    /\ (config.excludePatterns # DefaultExclude /\ Len(config.includePatterns) > 0)
         => fetchLog[i].url.path \notin {BPath, PdfPath}

\* with include and exclude patterns configured, /a was fetched and its link /b, which
\* matches both an include and an exclude pattern, was dropped by the filter
C21_Witness ==
  /\ pc = "done"
  /\ Len(config.includePatterns) > 0
  /\ MatchesAny(config.includePatterns, Page(BPath))
  /\ MatchesAny(config.excludePatterns, Page(BPath))
  /\ "filter" \in skipsSeen
  /\ Page(AboutPath) \in FetchedUrls
  /\ Page(BPath) \notin FetchedUrls

EndsWith(s, suffix) ==
  Len(suffix) <= Len(s) /\ SubSeq(s, Len(s) - Len(suffix) + 1, Len(s)) = suffix

\* C22 (as claimed): with the default exclusion list no URL whose path ends in one of the
\* listed extensions (.pdf) is fetched
C22_Original ==
  config.excludePatterns = DefaultExclude =>
    \A i \in 1..Len(fetchLog) : ~EndsWith(fetchLog[i].url.path, <<".", "p", "d", "f">>)

\* C23 (as claimed): every page fetch the loop starts eventually ends, as a success or as a
\* failure, whatever the server answers, so the loop never stays in a fetch
C23_Original ==
  (pc = "fetching") ~> (pc # "fetching")

\* C24 (as claimed): the visited set only grows during a run and every URL taken off the
\* queue is a member of it afterwards, whether it was fetched or skipped
C24_Original ==
  [][ /\ pc' # "killed" => visited \subseteq visited'
      /\ (pc = "loop" /\ LoopCondition /\ queue' = Tail(queue)) => NormalizedUrl \in visited' ]_vars

\* C24: the visited set only grows during a run; it holds every URL the loop started a
\* fetch for, from the start of that fetch on; an item skipped after dequeue leaves it as
\* it was
C24_VisitedGrows ==
  [][ /\ pc' # "killed" => visited \subseteq visited'
      /\ FetchedUrls' \subseteq visited'
      /\ (pc = "loop" /\ pc' = "fetching") => NormalizedUrl \in visited'
      /\ (pc = "loop" /\ pc' = "loop") => visited' = visited ]_vars

\* a run that fetched pages ended, and /private, dequeued and skipped for robots.txt, is
\* not in the visited set
C24_Witness ==
  /\ pc = "done"
  /\ "robots" \in skipsSeen
  /\ "depth" \in skipsSeen
  /\ Page(PrivatePath) \notin visited
  /\ Page(RootPath) \in visited
  /\ Cardinality(visited) >= 3

\* C25 (as claimed): whatever the fetch strategy throws, the loop treats the record as a
\* failure: pagesFailed grows and pagesSuccessful does not, an error entry and no page entry
\* is appended, and the entry carries the status inferred from the error text
C25_Original ==
  [][ FetchRejected =>
        /\ stats'.pagesFailed = stats.pagesFailed + 1
        /\ stats'.pagesSuccessful = stats.pagesSuccessful
        /\ Len(manifest'.pages) = Len(manifest.pages)
        /\ Len(manifest'.errors) = Len(manifest.errors) + 1
        /\ Last(manifest'.errors).url = item.url
        /\ Last(manifest'.errors).status \in {404, 403, 500, 408, 0}
        /\ Last(manifest'.errors).status = InferStatus(Last(manifest'.errors).error) ]_vars

\* Math.round(sum / n)
RoundedMean(sum, n) == (2 * sum + n) \div (2 * n)

\* C26 (as claimed): once a page was counted in pagesSuccessful, avgResponseTimeMs is the
\* rounded mean of the response times of all pages counted there, those fetched before a
\* resume included
C26_Original ==
  stats.pagesSuccessful > 0 =>
    stats.avgResponseTimeMs = RoundedMean(timeSum, stats.pagesSuccessful)

\* C27 (as claimed): the bounds, filters, delay and seed in force during a resumed run are
\* those of the configuration recorded in the manifest of the original run
C27_Original ==
  (mode = "resume" /\ InLoop) =>
    /\ config.seedUrl = manifest.config.seedUrl
    /\ config.maxPages = manifest.config.maxPages
    /\ config.maxDepth = manifest.config.maxDepth
    /\ config.delayMs = manifest.config.delayMs
    /\ config.includePatterns = manifest.config.includePatterns
    /\ config.excludePatterns = manifest.config.excludePatterns

\* the sum of stats.pagesByType
TypeTotal(s) ==
  s.pagesByType["homepage"] + s.pagesByType["about"] + s.pagesByType["team"]
    + s.pagesByType["product"] + s.pagesByType["news"] + s.pagesByType["contact"]
    + s.pagesByType["legal"] + s.pagesByType["other"]

\* C28 (as claimed): in every reachable state pagesRequested = pagesSuccessful + pagesFailed,
\* the manifest has pagesSuccessful page entries and pagesFailed error entries, and the
\* per-type counts sum to pagesSuccessful
C28_Original ==
  /\ stats.pagesRequested = stats.pagesSuccessful + stats.pagesFailed
  /\ Len(manifest.pages) = stats.pagesSuccessful
  /\ Len(manifest.errors) = stats.pagesFailed
  /\ TypeTotal(stats) = stats.pagesSuccessful

\* C29 (as claimed): a manifest written by a periodic checkpoint records the running
\* statistics of the moment, which are those of the state file written in the same step,
\* in fresh and in resumed runs
C29_Original ==
  [][ (pc = "fetching" /\ disk'.manifest # disk.manifest) =>
        /\ disk'.manifest[1].stats = stats'
        /\ disk'.state # <<>>
        /\ disk'.manifest[1].stats = disk'.state[1].stats ]_vars

\* the hostname h is that of the seed up to a leading "www."
SameSite(h, seedHost) ==
  \/ h = seedHost
  \/ h = "www." \o seedHost
  \/ seedHost = "www." \o h

\* the hostname of the seed of the logical crawl: the crawl directory is named after it by
\* crawl() and restored from the state file by resume()
SeedHost == crawlDir

\* C30: every item in the frontier and every URL the loop starts a fetch for has the
\* hostname of the seed up to a leading "www."; the external link of the home page is never
\* enqueued
C30_StaysOnSite ==
  /\ \A k \in 1..Len(queue) :
       /\ SameSite(queue[k].url.host, SeedHost)
       /\ queue[k].url # Https("other.com", DPath)
  /\ \A i \in 1..Len(fetchLog) : SameSite(fetchLog[i].url.host, SeedHost)

\* a run ended in which the home page, which links to other.com, was saved and the page
\* on the www. host was fetched
C30_Witness ==
  /\ pc = "done"
  /\ \E i \in 1..Len(manifest.pages) : manifest.pages[i].url = Page(RootPath)
  /\ Https("www.example.com", DPath) \in FetchedUrls
  /\ Page(CPath) \in FetchedUrls

====
